---- MODULE Spec2Model ----
(***************************************************************************)
(* LocalBroadcastChannel (ByConity exchange layer): the status state       *)
(* machine, the bounded transport queue and the memory-credit handoff of   *)
(* src/Processors/Exchange/DataTrans/Local/LocalBroadcastChannel.cpp.      *)
(*                                                                         *)
(* Three threads share one channel: the sender role ("snd"), the receiver  *)
(* role ("rcv") and an external canceller ("ext").  Every call is split    *)
(* into the steps at which it reads or writes shared state (the atomic     *)
(* status pointer, the queue, the memory budgets); a pc value names the    *)
(* source line the thread is about to execute.                             *)
(***************************************************************************)
EXTENDS Integers, Sequences, FiniteSets, TLC

\* ------------------------------------------------------------------ bounds
MaxSends == 2        \* chunks the sender role produces
Capacity == 1        \* capacity of the transport queue

\* --------------------------------------------------- BroadcastStatusCode
ALL_SENDERS_DONE == -1
RUNNING == 0
RECV_REACH_LIMIT == 1
RECV_TIMEOUT == 2
SEND_TIMEOUT == 3
SEND_UNKNOWN_ERROR == 100

Threads == {"snd", "rcv", "ext"}
FinishCodes == {ALL_SENDERS_DONE, RUNNING, RECV_REACH_LIMIT}
\* the message each caller of finish passes: callers differ in their message,
\* so a returned message names the call it came from
MessageOf(t) == CASE t = "snd" -> "done" [] t = "rcv" -> "abort" [] OTHER -> "cancel"
\* allocatedBytes() of the n-th chunk the sender produces: every chunk has
\* its own size
ChunkSizes(n) == {n}

\* ------------------------------------------------------------ value types
BroadcastStatus(code, is_modifer, message) ==
    [code |-> code, is_modifer |-> is_modifer, message |-> message]

init_status == BroadcastStatus(RUNNING, FALSE, "init")

NoStatus == BroadcastStatus(RUNNING, FALSE, "")
\* A Chunk carries its sequence number, allocatedBytes() and bytes().
NoChunk == [kind |-> "none", seq |-> 0, alloc |-> 0, bytes |-> 0]
Chunk(seq, alloc) == [kind |-> "chunk", seq |-> seq, alloc |-> alloc, bytes |-> 1]
SendDoneMark == [kind |-> "mark", seq |-> 0, alloc |-> 0, bytes |-> 0]

\* A pointer is the address of the embedded init_status or of a heap object;
\* a heap object is named by the thread that allocated it and a slot.
InitPtr == <<"init", 0>>
NullPtr == <<"null", 0>>
HeapPtrs == Threads \X {1, 2}
Ptrs == {InitPtr} \cup HeapPtrs

\* RecvDataPacket / the value a call hands back
NoResult == [kind |-> "none", chunk |-> NoChunk, status |-> NoStatus, error |-> ""]
ChunkResult(c) == [kind |-> "chunk", chunk |-> c, status |-> NoStatus, error |-> ""]
StatusResult(s) == [kind |-> "status", chunk |-> NoChunk, status |-> s, error |-> ""]
\* an Exception thrown out of the call, named by its ErrorCodes member
ErrorResult(e) == [kind |-> "error", chunk |-> NoChunk, status |-> NoStatus, error |-> e]

VARIABLES
    broadcast_status,   \* std::atomic<BroadcastStatus *>
    heap,               \* Ptrs -> the BroadcastStatus stored there, or NoStatus when free
    live,               \* the heap pointers currently allocated
    queue,              \* receive_queue: the items, oldest first
    closed,             \* receive_queue: the one-way closed flag
    t2g,                \* bytes moved by transferThreadMemoryToGlobal
    g2t,                \* bytes moved by transferGlobalMemoryToThread
    pc,                 \* per thread: the line it is about to execute
    op,                 \* per thread: the public call in progress
    chunk,              \* per thread: the Chunk argument / the popped Chunk
    fcode,              \* per thread: finish's status_code argument
    fmsg,               \* per thread: finish's message argument
    new_status_ptr,     \* per thread: finish's candidate
    res,                \* per thread: the value the call returns
    nsent,              \* chunks produced so far by the sender role
    sender_proxy,       \* the registry's proxy for data_key: whether the
                        \* producer side was accepted, whether this
                        \* channel is its real sender
    hist                \* history of the run (observations only)

chan == <<broadcast_status, heap, live, queue, closed, t2g, g2t>>
vars == <<broadcast_status, heap, live, queue, closed, t2g, g2t,
          pc, op, chunk, fcode, fmsg, new_status_ptr, res,
          nsent, sender_proxy, hist>>

\* *broadcast_status.load(std::memory_order_acquire)
CurrentStatus == heap[broadcast_status]

\* ------------------------------------------------- the transport queue
QueueFull == Len(queue) >= Capacity

\* tryEmplaceUntil: an insert succeeds iff the queue is open and has room
\* before the deadline; a full open queue makes the caller wait, and the
\* step taken while it is still full is the deadline expiring.
CanEmplace == ~closed /\ ~QueueFull
EmplaceBlocked == ~closed /\ QueueFull

\* tryPopUntil: the oldest item when there is one; an empty queue makes the
\* caller wait until the deadline (or the close) and then fails.
CanPop == queue # <<>>
PopBlocked == queue = <<>> /\ ~closed

\* ------------------------------------------------------------ history
\* hist records what happened; no action reads it to decide what to do.
NoWinner == [by |-> "none", code |-> RUNNING, message |-> ""]

\* What one call did, kept until the call returns.
NoCall ==
    [startCode |-> RUNNING,        \* the code published when a send started,
                                   \* or the timeout code published when any
                                   \* other call started
     path |-> "",                  \* the branch the call returned through
     undisturbed |-> FALSE,        \* a recv that started on a running channel
                                   \* with an empty queue, no other call having
                                   \* been in progress since
     afterFinish |-> FALSE,        \* a send that started after some finish call
                                   \* had returned
     nRecvTime |-> 0,              \* its samples of receiver_metrics.recv_time_ms
     nIns |-> 0,                   \* chunks this call inserted
     nRem |-> 0,                   \* chunks this call removed
     nT2G |-> 0,                   \* its transferThreadMemoryToGlobal calls
     bT2G |-> 0,                   \* ... and their bytes
     nG2T |-> 0,                   \* its transferGlobalMemoryToThread calls
     bG2T |-> 0,                   \* ... and their bytes
     qAccess |-> FALSE,            \* it called into the queue
     viaFinish |-> FALSE,          \* its result is a finish call's result
     won |-> FALSE,                \* its finish won the compare-and-swap
     timedOut |-> FALSE,           \* its queue operation failed by deadline
                                   \* while the initial Status was published
     afterPosFin |-> FALSE,        \* a recv that started after a winning
                                   \* positive finish had returned
     atPosWin |-> "no",            \* its pc when a positive finish won
     blockedAtWin |-> FALSE,       \* ... and whether it was waiting on the queue
     seqAtStart |-> 0]             \* newest chunk queued when a negative-code
                                   \* finish was called

InitHist ==
    [winner |-> NoWinner,          \* the finish call whose CAS succeeded
     installs |-> 0,               \* successful stores to broadcast_status
     modTrue |-> 0,                \* finish calls that returned is_modifer = true
     accepted |-> <<>>,            \* chunks inserted into the queue, in order
     delivered |-> <<>>,           \* chunks handed back by recv, in order
     posDone |-> FALSE,            \* a winning positive finish has returned
     drainUpTo |-> 0,              \* newest chunk queued when the winning
                                   \* negative finish was called
     hardUpTo |-> 0,               \* newest chunk queued when a positive finish won
     popAfterPosWin |-> FALSE,     \* a chunk queued at a positive win left the
                                   \* queue afterwards
     closes |-> 0,                 \* close() calls the channel made
     marks |-> 0,                  \* end-of-stream markers the channel inserted
     sideBy |-> "none",            \* the thread whose finish touched the queue
     finReturned |-> FALSE,        \* some finish call has returned
     behindMark |-> FALSE,         \* a chunk was accepted after the marker of a
                                   \* negative-code finish had been inserted
     reported |-> {},              \* chunks whose send returned the running Status
     badFree |-> FALSE,            \* a delete of storage that was not allocated,
                                   \* or that another thread could still reach
     call |-> [t \in Threads |-> NoCall]]

Min(a, b) == IF a < b THEN a ELSE b

ChunkSeqs(q) == {q[i].seq : i \in {j \in 1..Len(q) : q[j].kind = "chunk"}}
MaxSeq(S) == IF S = {} THEN 0 ELSE CHOOSE x \in S : \A y \in S : y <= x

\* ------------------------------------------------------------------ Init
Init ==
    /\ broadcast_status = InitPtr
    /\ heap = [p \in Ptrs |-> IF p = InitPtr THEN init_status ELSE NoStatus]
    /\ live = {}
    /\ queue = <<>>
    /\ closed = FALSE
    /\ t2g = 0
    /\ g2t = 0
    /\ pc = [t \in Threads |-> "idle"]
    /\ op = [t \in Threads |-> "none"]
    /\ chunk = [t \in Threads |-> NoChunk]
    /\ fcode = [t \in Threads |-> RUNNING]
    /\ fmsg = [t \in Threads |-> ""]
    /\ new_status_ptr = [t \in Threads |-> NullPtr]
    /\ res = [t \in Threads |-> NoResult]
    /\ nsent = 0
    /\ sender_proxy = [accepted |-> FALSE, real_sender |-> FALSE]
    /\ hist = InitHist

\* what is noted when a call starts (only what the call's properties read)
StartCall(o, code) ==
    [NoCall EXCEPT !.startCode = IF \/ o = "send"
                                    \/ CurrentStatus.code \in {RECV_TIMEOUT, SEND_TIMEOUT}
                                 THEN CurrentStatus.code ELSE RUNNING,
                   !.undisturbed = /\ o = "recv"
                                   /\ broadcast_status = InitPtr
                                   /\ queue = <<>> /\ ~closed
                                   /\ \A u \in Threads : pc[u] = "idle",
                   !.afterPosFin = (o = "recv" /\ hist.posDone),
                   !.afterFinish = (o = "send" /\ hist.finReturned),
                   !.seqAtStart = IF o = "finish" /\ code < 0
                                  THEN MaxSeq(ChunkSeqs(queue)) ELSE 0]

\* thread t starts call o: its record is opened, and no recv of another
\* thread is undisturbed any longer
NoteCall(h, t, o, code) ==
    [h EXCEPT !.call = [u \in Threads |->
                           IF u = t THEN StartCall(o, code)
                           ELSE [@[u] EXCEPT !.undisturbed = FALSE]]]

\* ---------------------------------------------------------------- finish
\* line 120: new BroadcastStatus(status_code, false, message)
FreshPtr(t) == IF <<t, 1>> \notin live THEN <<t, 1>> ELSE <<t, 2>>

\* lines 116-120: finish is entered (as a call of its own, or from the
\* timeout path of recv / sendImpl) and allocates its candidate.
EnterFinish(t, code, message) ==
    /\ fcode' = [fcode EXCEPT ![t] = code]
    /\ fmsg' = [fmsg EXCEPT ![t] = message]
    /\ new_status_ptr' = [new_status_ptr EXCEPT ![t] = FreshPtr(t)]
    /\ heap' = [heap EXCEPT ![FreshPtr(t)] = BroadcastStatus(code, FALSE, message)]
    /\ live' = live \cup {FreshPtr(t)}
    /\ pc' = [pc EXCEPT ![t] = "f122"]

\* a compare-and-swap pinned to whatever is currently published
CasExpectedCurrent == broadcast_status

\* line 118: the value the compare-and-swap expects
CasExpected == InitPtr

\* lines 136-143: the winner's return value
WinResult(s) == BroadcastStatus(s.code, TRUE, s.message)

\* a loser that also claims to be the modifier
LoseResultModifier(s) == BroadcastStatus(s.code, TRUE, s.message)

\* a loser that hands back the Status it expected to replace
LoseResultExpected(s) == init_status

\* line 157: the loser's return value, a copy of the installed Status
LoseResult(s) == s

\* where control goes when finish returns: line 80 of recv, or the caller
AfterFinish(t) == IF op[t] = "recv" THEN "r80" ELSE "ret"

NoteFinishReturn(h, t, r) ==
    [h EXCEPT !.modTrue = IF r.is_modifer THEN Min(@ + 1, 2) ELSE @,
              !.posDone = @ \/ (r.is_modifer /\ r.code > 0),
              !.finReturned = TRUE,
              !.call[t].viaFinish = TRUE]

\* what the other threads were doing when thread t's finish won
NoteWin(h, t) ==
    [h EXCEPT !.winner = [by |-> t, code |-> fcode[t], message |-> fmsg[t]],
              !.installs = Min(@ + 1, 2),
              !.drainUpTo = IF fcode[t] < 0 /\ op[t] = "finish"
                            THEN h.call[t].seqAtStart ELSE @,
              !.hardUpTo = IF fcode[t] > 0 THEN MaxSeq(ChunkSeqs(queue)) ELSE @,
              !.call = [u \in Threads |->
                  IF u = t THEN [@[u] EXCEPT !.won = TRUE]
                  ELSE IF fcode[t] > 0 /\ pc[u] # "idle"
                  THEN [@[u] EXCEPT !.atPosWin = pc[u],
                                    !.blockedAtWin = \/ pc[u] = "s93" /\ EmplaceBlocked
                                                     \/ pc[u] = "r57" /\ PopBlocked]
                  ELSE @[u]]]

Finish_Call(t, code, message) ==
    /\ pc[t] = "idle"
    /\ op' = [op EXCEPT ![t] = "finish"]
    /\ EnterFinish(t, code, message)
    /\ hist' = NoteCall(hist, t, "finish", code)
    /\ UNCHANGED <<broadcast_status, queue, closed, t2g, g2t, chunk, res, nsent, sender_proxy>>

\* line 122, the compare-and-swap succeeds
Finish_CasWin(t) ==
    /\ pc[t] = "f122"
    /\ broadcast_status = CasExpected
    /\ broadcast_status' = new_status_ptr[t]
    /\ pc' = [pc EXCEPT ![t] = "f131"]
    /\ hist' = NoteWin(hist, t)
    /\ UNCHANGED <<heap, live, queue, closed, t2g, g2t, op, chunk, fcode, fmsg,
                   new_status_ptr, res, nsent, sender_proxy>>

\* a delete by thread t of storage that is not allocated (the embedded
\* initial Status, storage already freed) or that is published or held by
\* another thread
FreeIsBad(p, t) ==
    \/ p \notin live
    \/ t \in Threads /\ p = broadcast_status
    \/ \E u \in Threads \ {t} : new_status_ptr[u] = p

\* line 122 fails, lines 147-157: the candidate is deleted, the installed
\* Status is copied out
Finish_CasLose(t) ==
    /\ pc[t] = "f122"
    /\ broadcast_status # CasExpected
    /\ heap' = [heap EXCEPT ![new_status_ptr[t]] = NoStatus]
    /\ live' = live \ {new_status_ptr[t]}
    /\ new_status_ptr' = [new_status_ptr EXCEPT ![t] = NullPtr]
    /\ res' = [res EXCEPT ![t] = StatusResult(LoseResult(CurrentStatus))]
    /\ pc' = [pc EXCEPT ![t] = AfterFinish(t)]
    /\ hist' = [NoteFinishReturn(hist, t, LoseResult(CurrentStatus))
                    EXCEPT !.badFree = @ \/ FreeIsBad(new_status_ptr[t], t)]
    /\ UNCHANGED <<broadcast_status, queue, closed, t2g, g2t, op, chunk, fcode, fmsg,
                   nsent, sender_proxy>>

\* lines 131-135: the winner's side effect on the queue
\* receive_queue->close()
QueueClose ==
    /\ closed' = TRUE
    /\ UNCHANGED queue

\* receive_queue->tryEmplaceUntil(options.max_timeout_ts, getName())
QueueEmplaceMark ==
    /\ queue' = IF CanEmplace THEN Append(queue, SendDoneMark) ELSE queue
    /\ UNCHANGED closed

\* a winner that closes the queue whatever its code
FinishClosesAlways(code) == TRUE

\* the sign test of line 131 turned around
FinishClosesNegative(code) == code < 0

\* line 131: the codes on which the winner closes the queue
FinishCloses(code) == code > 0

\* the queue closed and the marker inserted as well
FinishSideEffectBoth(code) ==
    /\ closed' = TRUE
    /\ queue' = IF CanEmplace THEN Append(queue, SendDoneMark) ELSE queue

FinishSideEffect(code) ==
    IF FinishCloses(code) THEN QueueClose ELSE QueueEmplaceMark

\* what the winner's side effect did to the queue
NoteSideEffect(h, t) ==
    [h EXCEPT !.closes = IF closed' # closed THEN Min(@ + 1, 2) ELSE @,
              !.marks = IF queue' # queue THEN Min(@ + 1, 2) ELSE @,
              !.sideBy = IF closed' # closed \/ queue' # queue THEN t ELSE @]

\* lines 131-143
Finish_Modifier(t) ==
    /\ pc[t] = "f131"
    /\ FinishSideEffect(heap[new_status_ptr[t]].code)
    /\ res' = [res EXCEPT ![t] = StatusResult(WinResult(heap[new_status_ptr[t]]))]
    /\ new_status_ptr' = [new_status_ptr EXCEPT ![t] = NullPtr]
    /\ pc' = [pc EXCEPT ![t] = AfterFinish(t)]
    /\ hist' = NoteSideEffect(NoteFinishReturn(hist, t, WinResult(heap[new_status_ptr[t]])), t)
    /\ UNCHANGED <<broadcast_status, heap, live, t2g, g2t, op, chunk, fcode, fmsg,
                   nsent, sender_proxy>>

\* the call hands its value to the caller
Return(t) ==
    /\ pc[t] = "ret"
    /\ pc' = [pc EXCEPT ![t] = "idle"]
    /\ op' = [op EXCEPT ![t] = "none"]
    /\ chunk' = [chunk EXCEPT ![t] = NoChunk]
    /\ fcode' = [fcode EXCEPT ![t] = RUNNING]
    /\ fmsg' = [fmsg EXCEPT ![t] = ""]
    /\ res' = [res EXCEPT ![t] = NoResult]
    /\ hist' = [hist EXCEPT !.call[t] = NoCall]
    /\ UNCHANGED <<chan, new_status_ptr, nsent, sender_proxy>>

\* ------------------------------------------------------------------ recv
Recv_Call(t) ==
    /\ t = "rcv"
    /\ pc[t] = "idle"
    /\ op' = [op EXCEPT ![t] = "recv"]
    /\ pc' = [pc EXCEPT ![t] = "r52"]
    /\ hist' = NoteCall(hist, t, "recv", RUNNING)
    /\ UNCHANGED <<chan, chunk, fcode, fmsg, new_status_ptr, res, nsent, sender_proxy>>

\* the sign test of line 54 turned around
RecvFastPathNegative(code) == code < 0

\* line 54: the codes on which recv returns without touching the queue
RecvFastPath(code) == code > 0

\* lines 52-55
Recv_Load(t) ==
    /\ pc[t] = "r52"
    /\ IF RecvFastPath(CurrentStatus.code)
       THEN /\ res' = [res EXCEPT ![t] = StatusResult(CurrentStatus)]
            /\ pc' = [pc EXCEPT ![t] = "ret"]
            /\ hist' = [hist EXCEPT !.call[t].path = "fast"]
       ELSE /\ pc' = [pc EXCEPT ![t] = "r57"]
            /\ UNCHANGED <<res, hist>>
    /\ UNCHANGED <<chan, op, chunk, fcode, fmsg, new_status_ptr, nsent, sender_proxy>>

\* line 57, tryPopUntil hands out the oldest item.  Whether a closed queue
\* still hands out what it holds is left open: both outcomes are steps.
Recv_Pop(t) ==
    /\ pc[t] = "r57"
    /\ CanPop
    /\ queue' = Tail(queue)
    /\ IF Head(queue).kind = "chunk"
       THEN /\ chunk' = [chunk EXCEPT ![t] = Head(queue)]
            /\ pc' = [pc EXCEPT ![t] = "r62"]
            /\ hist' = [hist EXCEPT !.call[t].qAccess = TRUE, !.call[t].nRem = @ + 1,
                                    !.popAfterPosWin =
                                        @ \/ Head(queue).seq <= hist.hardUpTo]
       ELSE /\ pc' = [pc EXCEPT ![t] = "r69"]
            /\ hist' = [hist EXCEPT !.call[t].qAccess = TRUE]
            /\ UNCHANGED chunk
    /\ UNCHANGED <<broadcast_status, heap, live, closed, t2g, g2t, op, fcode, fmsg,
                   new_status_ptr, res, nsent, sender_proxy>>

\* bytes() credited where allocatedBytes() was charged
RecvCreditBytes(c) == c.bytes

\* the bytes recv credits to the consuming thread (line 64)
RecvCredit(c) == c.alloc

\* lines 59-65: a Chunk was removed
Recv_Chunk(t) ==
    /\ pc[t] = "r62"
    /\ g2t' = g2t + RecvCredit(chunk[t])
    /\ res' = [res EXCEPT ![t] = ChunkResult(chunk[t])]
    /\ pc' = [pc EXCEPT ![t] = "ret"]
    /\ hist' = [hist EXCEPT !.delivered = Append(@, chunk[t]),
                            !.call[t].path = "chunk",
                            !.call[t].nG2T = @ + 1,
                            !.call[t].bG2T = @ + RecvCredit(chunk[t])]
    /\ UNCHANGED <<broadcast_status, heap, live, queue, closed, t2g, op, chunk, fcode,
                   fmsg, new_status_ptr, nsent, sender_proxy>>

\* the Status read at line 52 handed back, without the second load
RecvMarkStatusStale == init_status

\* line 69: the Status a recv returns for the SendDoneMark
RecvMarkStatus == CurrentStatus

\* lines 67-70: the SendDoneMark was removed
Recv_Mark(t) ==
    /\ pc[t] = "r69"
    /\ res' = [res EXCEPT ![t] = StatusResult(RecvMarkStatus)]
    /\ pc' = [pc EXCEPT ![t] = "ret"]
    /\ hist' = [hist EXCEPT !.call[t].path = "mark"]
    /\ UNCHANGED <<chan, op, chunk, fcode, fmsg, new_status_ptr, nsent, sender_proxy>>

\* the sender's timeout code passed by recv
RecvTimeoutCodeSend == SEND_TIMEOUT

\* line 78: the code recv passes to finish
RecvTimeoutCode == RECV_TIMEOUT

\* a pop without a deadline: it gives up only when the queue is closed
Recv_WaitUnbounded(t) ==
    /\ pc[t] = "r57"
    /\ closed
    /\ EnterFinish(t, RecvTimeoutCode, "recv timeout")
    /\ hist' = [hist EXCEPT !.call[t].qAccess = TRUE]
    /\ UNCHANGED <<broadcast_status, queue, closed, t2g, g2t, op, chunk, res, nsent, sender_proxy>>

\* line 57 fails (deadline reached on an empty queue, or the queue is
\* closed), lines 77-79: finish(RECV_TIMEOUT, ...) is entered
Recv_Timeout(t) ==
    /\ pc[t] = "r57"
    /\ queue = <<>> \/ closed
    /\ EnterFinish(t, RecvTimeoutCode, "recv timeout")
    /\ hist' = [hist EXCEPT !.call[t].qAccess = TRUE,
                            !.call[t].path = "timeout",
                            !.call[t].timedOut = ~closed /\ broadcast_status = InitPtr]
    /\ UNCHANGED <<broadcast_status, queue, closed, t2g, g2t, op, chunk, res, nsent, sender_proxy>>

\* lines 80-81, enable_receiver_metrics set: one sample of the elapsed time
RecordRecvTime(h, t) == [h EXCEPT !.call[t].nRecvTime = @ + 1]

\* lines 80-82
Recv_AfterFinish(t) ==
    /\ pc[t] = "r80"
    /\ pc' = [pc EXCEPT ![t] = "ret"]
    /\ hist' = RecordRecvTime(hist, t)
    /\ UNCHANGED <<chan, op, chunk, fcode, fmsg, new_status_ptr, res, nsent, sender_proxy>>

\* -------------------------------------------------------------- sendImpl
Send_Call(t) ==
    /\ t = "snd"
    /\ pc[t] = "idle"
    /\ nsent < MaxSends
    /\ nsent' = nsent + 1
    /\ op' = [op EXCEPT ![t] = "send"]
    /\ \E alloc \in ChunkSizes(nsent + 1) :
           chunk' = [chunk EXCEPT ![t] = Chunk(nsent + 1, alloc)]
    /\ pc' = [pc EXCEPT ![t] = "s88"]
    /\ hist' = NoteCall(hist, t, "send", RUNNING)
    /\ UNCHANGED <<chan, fcode, fmsg, new_status_ptr, res, sender_proxy>>

\* recv's sign test used by sendImpl
SendFastPathPositive(code) == code > 0

\* a fast path that stops the producer on a graceful end only
SendFastPathNegative(code) == code < 0

\* line 89: the codes on which sendImpl returns without queuing
SendFastPath(code) == code # RUNNING

\* lines 88-90
Send_Load(t) ==
    /\ pc[t] = "s88"
    /\ IF SendFastPath(CurrentStatus.code)
       THEN /\ res' = [res EXCEPT ![t] = StatusResult(CurrentStatus)]
            /\ pc' = [pc EXCEPT ![t] = "ret"]
            /\ hist' = [hist EXCEPT !.call[t].path = "fast"]
       ELSE /\ pc' = [pc EXCEPT ![t] = "s93"]
            /\ UNCHANGED <<res, hist>>
    /\ UNCHANGED <<chan, op, chunk, fcode, fmsg, new_status_ptr, nsent, sender_proxy>>

\* line 93, tryEmplaceUntil succeeds
Send_Emplace(t) ==
    /\ pc[t] = "s93"
    /\ CanEmplace
    /\ queue' = Append(queue, chunk[t])
    /\ pc' = [pc EXCEPT ![t] = "s95"]
    /\ hist' = [hist EXCEPT !.accepted = Append(@, chunk[t]),
                            !.behindMark = @ \/ (hist.marks > 0 /\ hist.winner.code < 0),
                            !.call[t].qAccess = TRUE,
                            !.call[t].nIns = @ + 1]
    /\ UNCHANGED <<broadcast_status, heap, live, closed, t2g, g2t, op, chunk, fcode,
                   fmsg, new_status_ptr, res, nsent, sender_proxy>>

\* line 93, tryEmplaceUntil fails: the queue is closed, or stayed full
\* until options.max_timeout_ts
Send_EmplaceFail(t) ==
    /\ pc[t] = "s93"
    /\ ~CanEmplace
    /\ pc' = [pc EXCEPT ![t] = "s100"]
    /\ hist' = [hist EXCEPT !.call[t].qAccess = TRUE]
    /\ UNCHANGED <<chan, op, chunk, fcode, fmsg, new_status_ptr, res, nsent, sender_proxy>>

\* a send that leaves the bytes with the sending thread
SendCreditNone(c) == 0

\* bytes() charged where allocatedBytes() is credited
SendCreditBytes(c) == c.bytes

\* the bytes sendImpl charges to the process-wide budget (lines 92, 95)
SendCredit(c) == c.alloc

\* the Status read at line 88 returned again, without the second load
SendOkStatusStale == init_status

\* line 96: the Status a successful send returns
SendOkStatus == CurrentStatus

\* lines 95-96
Send_Transfer(t) ==
    /\ pc[t] = "s95"
    /\ t2g' = t2g + SendCredit(chunk[t])
    /\ res' = [res EXCEPT ![t] = StatusResult(SendOkStatus)]
    /\ pc' = [pc EXCEPT ![t] = "ret"]
    /\ hist' = [hist EXCEPT !.call[t].path = "ok",
                            !.reported = IF SendOkStatus.code = RUNNING
                                         THEN @ \cup {chunk[t].seq} ELSE @,
                            !.call[t].nT2G = @ + 1,
                            !.call[t].bT2G = @ + SendCredit(chunk[t])]
    /\ UNCHANGED <<broadcast_status, heap, live, queue, closed, g2t, op, chunk, fcode,
                   fmsg, new_status_ptr, nsent, sender_proxy>>

\* the interrupted send presenting itself as the modifier
SendInterruptedModifier ==
    BroadcastStatus(SEND_UNKNOWN_ERROR, TRUE, "Send operation was interrupted")

\* line 107
SendInterrupted ==
    BroadcastStatus(SEND_UNKNOWN_ERROR, FALSE, "Send operation was interrupted")

\* lines 100-108: the insert failed and the queue reports closed
Send_Closed(t) ==
    /\ pc[t] = "s100"
    /\ closed
    /\ res' = [res EXCEPT ![t] =
                  StatusResult(IF CurrentStatus.code # RUNNING
                               THEN CurrentStatus ELSE SendInterrupted)]
    /\ pc' = [pc EXCEPT ![t] = "ret"]
    /\ hist' = [hist EXCEPT !.call[t].path = "closed"]
    /\ UNCHANGED <<chan, op, chunk, fcode, fmsg, new_status_ptr, nsent, sender_proxy>>

\* the receiver's timeout code passed by sendImpl
SendTimeoutCodeRecv == RECV_TIMEOUT

\* line 111: the code sendImpl passes to finish
SendTimeoutCode == SEND_TIMEOUT

\* lines 100, 110-112: the insert failed by deadline, finish(SEND_TIMEOUT, ...)
Send_Timeout(t) ==
    /\ pc[t] = "s100"
    /\ ~closed
    /\ EnterFinish(t, SendTimeoutCode, "send timeout")
    /\ hist' = [hist EXCEPT !.call[t].path = "timeout",
                            !.call[t].timedOut = broadcast_status = InitPtr]
    /\ UNCHANGED <<broadcast_status, queue, closed, t2g, g2t, op, chunk, res, nsent, sender_proxy>>

\* every step but the start of an explicit finish call
OtherSteps ==
    \/ \E t \in Threads : Finish_CasWin(t)
    \/ \E t \in Threads : Finish_CasLose(t)
    \/ \E t \in Threads : Finish_Modifier(t)
    \/ \E t \in Threads : Recv_Call(t)
    \/ \E t \in Threads : Recv_Load(t)
    \/ \E t \in Threads : Recv_Pop(t)
    \/ \E t \in Threads : Recv_Chunk(t)
    \/ \E t \in Threads : Recv_Mark(t)
    \/ \E t \in Threads : Recv_Timeout(t)
    \/ \E t \in Threads : Recv_AfterFinish(t)
    \/ \E t \in Threads : Send_Call(t)
    \/ \E t \in Threads : Send_Load(t)
    \/ \E t \in Threads : Send_Emplace(t)
    \/ \E t \in Threads : Send_EmplaceFail(t)
    \/ \E t \in Threads : Send_Transfer(t)
    \/ \E t \in Threads : Send_Closed(t)
    \/ \E t \in Threads : Send_Timeout(t)
    \/ \E t \in Threads : Return(t)

\* any holder of the channel may call finish
Next ==
    \/ \E t \in Threads, code \in FinishCodes : Finish_Call(t, code, MessageOf(t))
    \/ OtherSteps

Spec == Init /\ [][Next]_vars

\* the roles kept apart: the sender sends, the receiver receives and the
\* canceller finishes (recv and sendImpl still call finish on a timeout)
RoleNext ==
    \/ \E code \in FinishCodes : Finish_Call("ext", code, MessageOf("ext"))
    \/ OtherSteps

\* the steps of a call already in progress on thread t
Step(t) ==
    \/ Finish_CasWin(t) \/ Finish_CasLose(t) \/ Finish_Modifier(t)
    \/ Recv_Load(t) \/ Recv_Pop(t) \/ Recv_Chunk(t) \/ Recv_Mark(t)
    \/ Recv_Timeout(t) \/ Recv_AfterFinish(t)
    \/ Send_Load(t) \/ Send_Emplace(t) \/ Send_EmplaceFail(t) \/ Send_Transfer(t)
    \/ Send_Closed(t) \/ Send_Timeout(t)
    \/ Return(t)

\* Every thread inside a call keeps running (the operating system schedules
\* it, and the deadlines of tryPopUntil / tryEmplaceUntil expire); nobody is
\* obliged to start a call.
FairSpec == Init /\ [][RoleNext]_vars /\ \A t \in Threads : WF_vars(Step(t))

\* ... and the consumer keeps calling recv
ConsumerSpec ==
    /\ Init /\ [][RoleNext]_vars
    /\ \A t \in Threads : WF_vars(Step(t))
    /\ WF_vars(Recv_Call("rcv"))

\* ----------------------------------------------------------------- merge
\* a merge that takes the other sender over and ends this channel's queue
Merge_Adopt(t) ==
    /\ t = "snd"
    /\ pc[t] = "idle"
    /\ op' = [op EXCEPT ![t] = "merge"]
    /\ closed' = TRUE
    /\ res' = [res EXCEPT ![t] = NoResult]
    /\ pc' = [pc EXCEPT ![t] = "ret"]
    /\ hist' = NoteCall(hist, t, "merge", RUNNING)
    /\ UNCHANGED <<broadcast_status, heap, live, queue, t2g, g2t, chunk, fcode, fmsg,
                   new_status_ptr, nsent, sender_proxy>>

\* lines 172-175: merge throws NOT_IMPLEMENTED
Merge_Call(t) ==
    /\ t = "snd"
    /\ pc[t] = "idle"
    /\ op' = [op EXCEPT ![t] = "merge"]
    /\ res' = [res EXCEPT ![t] = ErrorResult("NOT_IMPLEMENTED")]
    /\ pc' = [pc EXCEPT ![t] = "ret"]
    /\ hist' = NoteCall(hist, t, "merge", RUNNING)
    /\ UNCHANGED <<chan, chunk, fcode, fmsg, new_status_ptr, nsent, sender_proxy>>

\* ----------------------------------------------------- registerToSenders
\* lines 162-165: the receiver role looks the proxy up and starts waiting
Register_Call(t) ==
    /\ t = "rcv"
    /\ pc[t] = "idle"
    /\ ~sender_proxy.real_sender
    /\ op' = [op EXCEPT ![t] = "register"]
    /\ pc' = [pc EXCEPT ![t] = "g166"]
    /\ hist' = NoteCall(hist, t, "register", RUNNING)
    /\ UNCHANGED <<chan, chunk, fcode, fmsg, new_status_ptr, res, nsent, sender_proxy>>

\* the producer side of the exchange is accepted at the proxy
Proxy_Accept ==
    /\ ~sender_proxy.accepted
    /\ sender_proxy' = [sender_proxy EXCEPT !.accepted = TRUE]
    /\ UNCHANGED <<chan, pc, op, chunk, fcode, fmsg, new_status_ptr, res, nsent, hist>>

\* line 166: waitAccept returns, the accept having arrived
Register_Accepted(t) ==
    /\ pc[t] = "g166"
    /\ sender_proxy.accepted
    /\ pc' = [pc EXCEPT ![t] = "g167"]
    /\ UNCHANGED <<chan, op, chunk, fcode, fmsg, new_status_ptr, res, nsent, sender_proxy,
                   hist>>

\* a wait whose failure is dropped: control goes on to line 167
Register_WaitIgnored(t) ==
    /\ pc[t] = "g166"
    /\ ~sender_proxy.accepted
    /\ pc' = [pc EXCEPT ![t] = "g167"]
    /\ UNCHANGED <<chan, op, chunk, fcode, fmsg, new_status_ptr, res, nsent, sender_proxy,
                   hist>>

\* line 166: timeout_ms passes without the accept; waitAccept throws and
\* nothing in registerToSenders catches it
Register_WaitFailed(t) ==
    /\ pc[t] = "g166"
    /\ ~sender_proxy.accepted
    /\ res' = [res EXCEPT ![t] = ErrorResult("waitAccept timeout")]
    /\ pc' = [pc EXCEPT ![t] = "ret"]
    /\ hist' = [hist EXCEPT !.call[t].path = "timeout"]
    /\ UNCHANGED <<chan, op, chunk, fcode, fmsg, new_status_ptr, nsent, sender_proxy>>

\* lines 167-170: becomeRealSender(shared_from_this())
Register_Become(t) ==
    /\ pc[t] = "g167"
    /\ sender_proxy' = [sender_proxy EXCEPT !.real_sender = TRUE]
    /\ pc' = [pc EXCEPT ![t] = "ret"]
    /\ hist' = [hist EXCEPT !.call[t].path = "ok"]
    /\ UNCHANGED <<chan, op, chunk, fcode, fmsg, new_status_ptr, res, nsent>>

\* the channel together with its registration at the sender registry
RegNext ==
    \/ RoleNext
    \/ \E t \in Threads : Register_Call(t)
    \/ \E t \in Threads : Register_Accepted(t)
    \/ \E t \in Threads : Register_WaitFailed(t)
    \/ \E t \in Threads : Register_Become(t)
    \/ Proxy_Accept

RegSpec == Init /\ [][RegNext]_vars

\* ------------------------------------------------------------ destructor
\* a destructor that deletes whatever the pointer holds
DestructorFreesAlways == TRUE

\* line 187: the destructor deletes an installed Status only
DestructorFrees == broadcast_status # InitPtr

\* lines 182-188.  The channel is owned through shared pointers
\* (shared_from_this, line 167), so the destructor runs when the last
\* holder has let go: no call is in progress, and none starts afterwards.
Destroy ==
    /\ \A t \in Threads : pc[t] = "idle"
    /\ pc' = [t \in Threads |-> "gone"]
    /\ IF DestructorFrees
       THEN /\ heap' = [heap EXCEPT ![broadcast_status] = NoStatus]
            /\ live' = live \ {broadcast_status}
            /\ hist' = [hist EXCEPT !.badFree = @ \/ FreeIsBad(broadcast_status, "")]
       ELSE UNCHANGED <<heap, live, hist>>
    /\ UNCHANGED <<broadcast_status, queue, closed, t2g, g2t, op, chunk, fcode, fmsg,
                   new_status_ptr, res, nsent, sender_proxy>>

\* the whole interface over the channel's lifetime
ApiNext ==
    \/ Next
    \/ \E t \in Threads : Merge_Call(t)
    \/ Destroy

ApiSpec == Init /\ [][ApiNext]_vars

\* ------------------------------------------------------ a shared queue
\* The queue is handed to the constructor (line 39) and may be held by
\* others too: one of them closes it.
Queue_CloseElsewhere ==
    /\ ~closed
    /\ closed' = TRUE
    /\ hist' = [hist EXCEPT !.call = [u \in Threads |->
                                         [@[u] EXCEPT !.undisturbed = FALSE]]]
    /\ UNCHANGED <<broadcast_status, heap, live, queue, t2g, g2t, pc, op, chunk, fcode,
                   fmsg, new_status_ptr, res, nsent, sender_proxy>>

SharedNext ==
    \/ RoleNext
    \/ Queue_CloseElsewhere

SharedSpec == Init /\ [][SharedNext]_vars

\* Thread t is inside a queue operation that cannot complete now: it waits
\* until the queue changes or its deadline passes.  The winner's marker
\* insert (line 135) is the same tryEmplaceUntil as sendImpl's (line 93).
WaitsOnQueue(t) ==
    \/ pc[t] = "r57" /\ PopBlocked
    \/ pc[t] = "s93" /\ EmplaceBlocked
    \/ pc[t] = "f131" /\ ~FinishCloses(heap[new_status_ptr[t]].code) /\ EmplaceBlocked

\* ================================================================ claims
Idle(t) == pc[t] \in {"idle", "ret"}
Quiet == \A t \in Threads : Idle(t)
FinishInProgress == \E t \in Threads : pc[t] \in {"f122", "f131"}
HoldsFinishResult(t) == pc[t] \in {"r80", "ret"} /\ hist.call[t].viaFinish
Returning(t, o) == pc[t] = "ret" /\ op[t] = o
QueuedChunks == ChunkSeqs(queue)

\* C1: among all finish calls on the channel (the ones recv and sendImpl
\* make on a timeout included) at most one returns is_modifer = true, and
\* exactly one once none is in progress; every call's returned code and
\* message are the ones the winning call passed, and a call returns
\* is_modifer = true iff it is the call whose compare-and-swap succeeded.
FinishExactlyOneModifier ==
    /\ hist.modTrue <= 1
    /\ (broadcast_status # InitPtr /\ ~FinishInProgress) => hist.modTrue = 1
    /\ \A t \in Threads : HoldsFinishResult(t) =>
          /\ hist.winner.by # "none"
          /\ res[t].kind = "status"
          /\ res[t].status.code = hist.winner.code
          /\ res[t].status.message = hist.winner.message
          /\ res[t].status.is_modifer = hist.call[t].won

\* the winner has returned and a finish called with another code holds the
\* winner's Status
FinishRaceSeen ==
    /\ hist.modTrue = 1
    /\ ~FinishInProgress
    /\ \E t \in Threads :
          /\ HoldsFinishResult(t)
          /\ ~res[t].status.is_modifer
          /\ fcode[t] # hist.winner.code

\* C2: the published pointer is stored to at most once; once it has left
\* the embedded initial Status no step changes it or the Status it points
\* to, and a published nonzero code never changes (nor returns to 0).
StatusPublishedOnce ==
    [][/\ broadcast_status # InitPtr =>
             /\ broadcast_status' = broadcast_status
             /\ heap'[broadcast_status'] = heap[broadcast_status]
       /\ CurrentStatus.code # RUNNING =>
             /\ CurrentStatus'.code = CurrentStatus.code
             /\ CurrentStatus'.message = CurrentStatus.message
       /\ hist.installs' <= 1]_vars

\* a terminal Status is published and a later finish has lost against it
LaterFinishLost ==
    /\ CurrentStatus.code # RUNNING
    /\ \E t \in Threads :
          /\ HoldsFinishResult(t) /\ op[t] = "finish" /\ ~hist.call[t].won
          /\ fcode[t] # CurrentStatus.code

\* C3: after a finish called with a negative code has won, recv hands the
\* chunks back in insertion order, and no recv returns the negative Status
\* while a chunk that was queued before that finish was called is still in
\* the queue.
GracefulFinishDrains ==
    /\ \A i \in 1..Len(hist.delivered) : hist.delivered[i] = hist.accepted[i]
    /\ \A t \in Threads :
          (Returning(t, "recv") /\ res[t].kind = "status" /\ res[t].status.code < 0)
              => \A n \in QueuedChunks : n > hist.drainUpTo

\* C4 as stated: a chunk that is queued when a positive-code finish wins
\* never leaves the queue, the queue is closed once that finish has returned, and
\* a recv that starts after it has returned yields the terminal Status
\* without calling into the queue.
HardCloseDiscardsAll ==
    /\ ~hist.popAfterPosWin
    /\ hist.posDone => closed
    /\ \A t \in Threads : (op[t] = "recv" /\ hist.call[t].afterPosFin) =>
          /\ ~hist.call[t].qAccess
          /\ pc[t] \in {"r52", "ret"}
          /\ pc[t] = "ret" =>
                res[t].kind = "status" /\ res[t].status.code = hist.winner.code

\* C4 amended: once a winning positive-code finish has returned the queue
\* is closed, and every recv that starts after that yields the terminal
\* Status at once, without blocking and without calling into the queue, so
\* no chunk still queued reaches such a call.
HardCloseFastPath ==
    /\ hist.posDone => closed /\ CurrentStatus.code > 0
    /\ \A t \in Threads : (op[t] = "recv" /\ hist.call[t].afterPosFin) =>
          /\ ~hist.call[t].qAccess
          /\ hist.call[t].nRem = 0
          /\ pc[t] \in {"r52", "ret"}
          /\ pc[t] = "ret" =>
                /\ res[t].kind = "status"
                /\ res[t].status.code = hist.winner.code
                /\ res[t].status.code > 0

\* a recv that started after the hard close returns while a chunk is queued
RecvAfterHardClose ==
    /\ Returning("rcv", "recv")
    /\ hist.call["rcv"].afterPosFin
    /\ QueuedChunks # {}

\* C5: a send that inserted its chunk makes exactly one thread-to-global
\* transfer, of the chunk's allocated bytes; a recv that removed a Chunk
\* makes exactly one global-to-thread transfer, of that chunk's allocated
\* bytes; a call that inserted or removed no Chunk makes no transfer, and
\* no call transfers in the other direction.
TransfersPaired ==
    \A t \in Threads :
        /\ hist.call[t].nIns <= 1 /\ hist.call[t].nRem <= 1
        /\ hist.call[t].nT2G <= hist.call[t].nIns
        /\ hist.call[t].nG2T <= hist.call[t].nRem
        /\ pc[t] = "ret" =>
              /\ hist.call[t].nT2G = hist.call[t].nIns
              /\ hist.call[t].nG2T = hist.call[t].nRem
              /\ hist.call[t].bT2G = hist.call[t].nIns * chunk[t].alloc
              /\ hist.call[t].bG2T = hist.call[t].nRem * chunk[t].alloc
              /\ op[t] = "send" => hist.call[t].nRem = 0
              /\ op[t] = "recv" =>
                    /\ hist.call[t].nIns = 0
                    /\ (res[t].kind = "chunk") = (hist.call[t].nRem = 1)
              /\ op[t] = "finish" => hist.call[t].nIns = 0 /\ hist.call[t].nRem = 0

\* a recv returns a chunk whose allocation exceeds its payload while the
\* send that inserted a chunk returns too, each having made its one transfer
PairedTransferSeen ==
    /\ Returning("rcv", "recv")
    /\ res["rcv"].kind = "chunk"
    /\ res["rcv"].chunk.alloc > res["rcv"].chunk.bytes
    /\ hist.call["rcv"].bG2T = res["rcv"].chunk.alloc
    /\ Returning("snd", "send")
    /\ hist.call["snd"].nIns = 1
    /\ hist.call["snd"].bT2G = chunk["snd"].alloc

\* C6: when the channel is closed (a Status was installed or the queue is
\* closed), no call is in progress and every accepted chunk has been
\* returned by recv, the bytes moved thread-to-global equal the bytes
\* moved global-to-thread.
DrainedBalanced ==
    (/\ broadcast_status # InitPtr \/ closed
     /\ Quiet
     /\ hist.delivered = hist.accepted) => t2g = g2t

\* a finished channel that carried two chunks of different sizes
DrainedSeen ==
    /\ broadcast_status # InitPtr
    /\ Quiet
    /\ Len(hist.accepted) = 2
    /\ hist.delivered = hist.accepted
    /\ t2g = 3

\* C7: once the channel is terminal, no call is in progress and nothing
\* more can be delivered (positive code, or no chunk left in the queue),
\* the bytes moved thread-to-global equal the bytes moved global-to-thread.
TerminalBalanced ==
    (/\ CurrentStatus.code # RUNNING
     /\ Quiet
     /\ CurrentStatus.code > 0 \/ QueuedChunks = {}) => t2g = g2t

\* C8 as stated: a send that was in progress when a positive-code finish
\* won returns the winner's code or SEND_UNKNOWN_ERROR.
SendSeesHardClose ==
    \A t \in Threads :
        (Returning(t, "send") /\ hist.call[t].atPosWin # "no") =>
            res[t].status.code \in {hist.winner.code, SEND_UNKNOWN_ERROR}

\* C8 amended: a send that was in progress when a positive-code finish won
\* and had not yet made its last read of the published Status (line 96 or
\* 102) returns the winner's code or SEND_UNKNOWN_ERROR; only a send that
\* had already read the running Status returns code 0.
SendSeesHardCloseBeforeLastRead ==
    \A t \in Threads :
        (Returning(t, "send") /\ hist.call[t].atPosWin # "no") =>
            \/ res[t].status.code \in {hist.winner.code, SEND_UNKNOWN_ERROR}
            \/ hist.call[t].atPosWin = "ret" /\ res[t].status.code = RUNNING

\* a send whose chunk was inserted before the positive finish won returns
\* the winner's Status
SendOvertaken ==
    /\ Returning("snd", "send")
    /\ hist.call["snd"].atPosWin = "s95"
    /\ res["snd"].status.code = hist.winner.code
    /\ hist.winner.code > 0

\* C9 as stated (its part a finite run decides): a send or recv that was
\* waiting on the queue when a positive-code finish won returns a Status
\* carrying the winner's code.
BlockedCallsSeeWinner ==
    \A t \in Threads :
        (pc[t] = "ret" /\ hist.call[t].blockedAtWin) =>
            res[t].kind = "status" /\ res[t].status.code = hist.winner.code

\* C9 amended: every call eventually returns; a send that was waiting on a
\* full queue when a positive-code finish won returns a Status carrying the
\* winner's code, and a recv that was waiting on an empty queue then
\* returns that Status or a Chunk a racing send inserted before the queue
\* was closed.
CallsReturn ==
    /\ \A t \in {"snd", "rcv"} : (pc[t] # "idle") ~> (pc[t] = "idle")
    /\ [](\A t \in Threads :
            (pc[t] = "ret" /\ hist.call[t].blockedAtWin) =>
                \/ res[t].kind = "status" /\ res[t].status.code = hist.winner.code
                \/ op[t] = "recv" /\ res[t].kind = "chunk"
                     /\ res[t].chunk.seq > hist.hardUpTo)

\* a send that was waiting on the full queue when the positive finish won
\* returns the winner's Status
BlockedSendReleased ==
    /\ Returning("snd", "send")
    /\ hist.call["snd"].blockedAtWin
    /\ res["snd"].status.code = hist.winner.code

\* C10 as stated: after a recv or a send failed by deadline expiry while
\* the initial Status was published, the published Status carries the
\* call's timeout code.
TimeoutCode(o) == IF o = "recv" THEN RECV_TIMEOUT ELSE SEND_TIMEOUT

TimeoutIsPublished ==
    \A t \in Threads :
        (HoldsFinishResult(t) /\ hist.call[t].timedOut) =>
            CurrentStatus.code = TimeoutCode(op[t])

\* C10 amended: a recv or send that fails by deadline expiry returns what
\* its finish call yields: if that finish wins, the timeout code is
\* published with is_modifer = true returned; if another finish won first,
\* the Status that one installed.  Every call that starts while a timeout
\* code is published returns that code, and such a send inserts nothing.
TimeoutResolves ==
    /\ \A t \in Threads : (HoldsFinishResult(t) /\ hist.call[t].timedOut) =>
          /\ broadcast_status # InitPtr
          /\ res[t].status.code = CurrentStatus.code
          /\ hist.call[t].won =>
                /\ CurrentStatus.code = TimeoutCode(op[t])
                /\ res[t].status.is_modifer
    /\ \A t \in Threads :
          hist.call[t].startCode \in {RECV_TIMEOUT, SEND_TIMEOUT} =>
              /\ hist.call[t].nIns = 0
              /\ hist.call[t].nRem = 0
              /\ pc[t] = "ret" =>
                    /\ res[t].kind = "status"
                    /\ res[t].status.code = hist.call[t].startCode
                    /\ res[t].status.code = CurrentStatus.code

\* a send returns the recv-timeout Status published before it started
LaterSendSeesTimeout ==
    /\ Returning("snd", "send")
    /\ hist.call["snd"].startCode = RECV_TIMEOUT
    /\ hist.winner.by = "rcv"
    /\ res["snd"].status.code = RECV_TIMEOUT

MergeNotImplemented ==
    [][\A t \in Threads :
          /\ (op'[t] = "merge" /\ pc'[t] = "ret") =>
                res'[t] = ErrorResult("NOT_IMPLEMENTED")
          /\ ((op[t] = "merge" \/ op'[t] = "merge") /\ pc'[t] # pc[t]) =>
                chan' = chan]_vars

\* merge has thrown on a channel that holds a chunk and a terminal Status
MergeThrown ==
    /\ Returning("snd", "merge")
    /\ res["snd"].error = "NOT_IMPLEMENTED"
    /\ QueuedChunks # {}
    /\ broadcast_status # InitPtr
    /\ t2g > 0

\* C13: over the channel's lifetime it closes its queue at most once and
\* inserts at most one end-of-stream marker, never both; the queue is
\* touched only by the finish call whose compare-and-swap succeeded (a
\* close for a positive code, a marker otherwise), and a finish that lost
\* did neither.
SideEffectsOnce ==
    /\ hist.closes + hist.marks <= 1
    /\ hist.closes + hist.marks <= hist.installs
    /\ closed = (hist.closes = 1)
    /\ hist.closes = 1 => hist.winner.code > 0
    /\ hist.marks = 1 => hist.winner.code <= 0
    /\ hist.sideBy # "none" => hist.sideBy = hist.winner.by
    /\ \A t \in Threads :
          (HoldsFinishResult(t) /\ ~hist.call[t].won /\ hist.winner.by # t)
              => hist.sideBy # t

\* the winner has inserted the marker, and a finish called with a positive
\* code has lost without closing the queue
LoserLeftQueueAlone ==
    /\ hist.marks = 1
    /\ ~closed
    /\ \E t \in Threads :
          /\ HoldsFinishResult(t) /\ ~hist.call[t].won
          /\ fcode[t] > 0

\* C14: a send that starts while the published code is not 0 (positive or
\* negative) returns that Status from line 90: it never calls into the
\* queue, inserts nothing, transfers no memory credit, calls no finish and
\* leaves the published Status as it is.
SendFastPathFrame ==
    \A t \in Threads : (op[t] = "send" /\ hist.call[t].startCode # RUNNING) =>
        /\ pc[t] \in {"s88", "ret"}
        /\ ~hist.call[t].qAccess
        /\ hist.call[t].nIns = 0
        /\ hist.call[t].nT2G = 0 /\ hist.call[t].nG2T = 0
        /\ ~hist.call[t].viaFinish /\ ~hist.call[t].won
        /\ chunk[t].seq \notin QueuedChunks
        /\ CurrentStatus.code = hist.call[t].startCode
        /\ pc[t] = "ret" =>
              /\ hist.call[t].path = "fast"
              /\ res[t].kind = "status"
              /\ res[t].status = CurrentStatus

\* a send returns the graceful-end Status while an earlier chunk is queued
SendAfterGracefulEnd ==
    /\ Returning("snd", "send")
    /\ hist.call["snd"].startCode < 0
    /\ res["snd"].status.code < 0
    /\ QueuedChunks # {}
    /\ t2g > 0

\* C15: a send whose insert failed and that found the queue closed (line
\* 100) returns the published Status if its code is not 0 and otherwise a
\* SEND_UNKNOWN_ERROR status with is_modifer = false; it has inserted
\* nothing, made no memory transfer, called no finish and not changed the
\* published Status.
SendOnClosedQueue ==
    \A t \in Threads : (op[t] = "send" /\ hist.call[t].path = "closed") =>
        /\ pc[t] = "ret"
        /\ closed
        /\ hist.call[t].nIns = 0 /\ chunk[t].seq \notin QueuedChunks
        /\ hist.call[t].nT2G = 0 /\ hist.call[t].nG2T = 0
        /\ ~hist.call[t].viaFinish /\ ~hist.call[t].won
        /\ res[t].kind = "status"
        /\ \/ /\ res[t].status.code = SEND_UNKNOWN_ERROR
              /\ ~res[t].status.is_modifer
           \/ /\ res[t].status.code # RUNNING
              /\ res[t].status = CurrentStatus
        /\ CurrentStatus.code = RUNNING => res[t].status.code = SEND_UNKNOWN_ERROR

\* the queue was closed by another holder while the channel is running:
\* the send reports the interruption and the initial Status stays published
SendInterruptedSeen ==
    /\ Returning("snd", "send")
    /\ hist.call["snd"].path = "closed"
    /\ res["snd"].status.code = SEND_UNKNOWN_ERROR
    /\ broadcast_status = InitPtr
    /\ hist.closes = 0

\* C16: a send whose insert failed by deadline expiry with the queue not
\* closed calls finish(SEND_TIMEOUT) and returns its result: the
\* SEND_TIMEOUT Status with is_modifer = true if that finish won, otherwise
\* the Status already published, with is_modifer = false; either way its
\* chunk is not in the queue and no memory transfer was made for it.
SendTimeoutResult ==
    \A t \in Threads : (op[t] = "send" /\ hist.call[t].path = "timeout") =>
        /\ pc[t] \in {"f122", "f131", "ret"}
        /\ fcode[t] = SEND_TIMEOUT
        /\ hist.call[t].nIns = 0 /\ chunk[t].seq \notin QueuedChunks
        /\ hist.call[t].nT2G = 0 /\ hist.call[t].nG2T = 0
        /\ pc[t] = "ret" =>
              /\ hist.call[t].viaFinish
              /\ res[t].kind = "status"
              /\ hist.call[t].won =>
                    /\ res[t].status.code = SEND_TIMEOUT
                    /\ res[t].status.is_modifer
                    /\ CurrentStatus.code = SEND_TIMEOUT
              /\ ~hist.call[t].won =>
                    /\ ~res[t].status.is_modifer
                    /\ res[t].status = CurrentStatus

\* the second chunk found the queue full until the deadline: the send
\* returns as the modifier that published SEND_TIMEOUT
SendTimedOutSeen ==
    /\ Returning("snd", "send")
    /\ hist.call["snd"].path = "timeout"
    /\ hist.call["snd"].won
    /\ chunk["snd"].seq = 2
    /\ QueuedChunks = {1}
    /\ t2g = 1

RecvTimeRecordedOnce ==
    \A t \in Threads : Returning(t, "recv") => hist.call[t].nRecvTime = 1

\* C19 as stated: no thread inside finish waits on the queue, whatever the
\* code and the state of the queue.
FinishNeverWaits ==
    \A t \in Threads : pc[t] \in {"f122", "f131"} => ~WaitsOnQueue(t)

\* C19 amended: a finish waits on the queue only as the winner with a code
\* that is not positive, inserting the end-of-stream marker into a full,
\* open queue, and that wait ends at the deadline of the insert; the
\* compare-and-swap, a losing finish and a winning finish with a positive
\* code (the close) never wait on the queue.
FinishWaitsOnlyForMarker ==
    \A t \in Threads :
        /\ pc[t] = "f122" => ~WaitsOnQueue(t) /\ ENABLED Step(t)
        /\ (pc[t] = "f131" /\ fcode[t] > 0) => ~WaitsOnQueue(t)
        /\ (pc[t] \in {"f122", "f131"} /\ WaitsOnQueue(t)) =>
              /\ fcode[t] <= 0
              /\ hist.call[t].won
              /\ QueueFull /\ ~closed
              /\ ENABLED Finish_Modifier(t)

\* the winner of finish(-1) is waiting for room for the marker
FinishWaitingForRoom ==
    \E t \in Threads :
        /\ pc[t] = "f131"
        /\ fcode[t] = ALL_SENDERS_DONE
        /\ WaitsOnQueue(t)
        /\ QueuedChunks # {}

\* the destructor has run
Destroyed == \A t \in Threads : pc[t] = "gone"

\* C20: no Status is deleted twice or while another thread can reach it,
\* and the embedded initial Status is never deleted; a candidate is private
\* to its creator until its compare-and-swap succeeds and is deleted by the
\* creator when it fails; the installed Status stays allocated and intact
\* until the destructor deletes it; while the channel lives exactly the
\* reachable Status objects are allocated, and none is left afterwards.
StatusFreedSafely ==
    /\ ~hist.badFree
    /\ heap[InitPtr] = init_status /\ InitPtr \notin live
    /\ IF Destroyed
       THEN live = {}
       ELSE /\ live = (({broadcast_status} \cup {new_status_ptr[t] : t \in Threads})
                          \ {InitPtr, NullPtr})
            /\ broadcast_status # InitPtr =>
                  /\ heap[broadcast_status].code = hist.winner.code
                  /\ heap[broadcast_status].message = hist.winner.message
    /\ \A t \in Threads :
          /\ pc[t] = "f122" =>
                new_status_ptr[t] \in live /\ new_status_ptr[t] # broadcast_status
          /\ \A u \in Threads \ {t} :
                new_status_ptr[t] # NullPtr => new_status_ptr[t] # new_status_ptr[u]

\* the channel was destroyed after a finish had won and its queue had
\* carried chunks: the installed Status is deleted, nothing stays allocated
DestroyedAfterFinish ==
    /\ Destroyed
    /\ broadcast_status # InitPtr
    /\ hist.modTrue = 1
    /\ hist.accepted # <<>>
    /\ live = {}

\* C21: registerToSenders reaches becomeRealSender only after waitAccept
\* has returned with the accept present, so the channel is the proxy's real
\* sender only if the producer side was accepted; a call whose waitAccept
\* failed ends with that failure at the caller and has not installed the
\* channel.
RegisterAfterAccept ==
    /\ sender_proxy.real_sender => sender_proxy.accepted
    /\ \A t \in Threads : op[t] = "register" =>
          /\ pc[t] \in {"g166", "g167", "ret"}
          /\ pc[t] = "g167" => sender_proxy.accepted /\ ~sender_proxy.real_sender
          /\ pc[t] = "ret" =>
                IF hist.call[t].path = "timeout"
                THEN /\ res[t].kind = "error"
                     /\ ~sender_proxy.real_sender
                ELSE /\ res[t].kind = "none"
                     /\ sender_proxy.real_sender

\* a registration failed at the timeout; the accept came too late and the
\* channel is not the real sender
RegistrationFailedSeen ==
    /\ Returning("rcv", "register")
    /\ res["rcv"].kind = "error"
    /\ sender_proxy.accepted
    /\ ~sender_proxy.real_sender

\* C22: once a finish with a negative code has won, a consumer that keeps
\* calling recv eventually has received every accepted chunk and is handed
\* the negative-code Status, whether or not the end-of-stream marker could
\* be inserted.
ConsumerReachesGracefulEnd ==
    (hist.winner.by # "none" /\ hist.winner.code < 0) ~>
        (/\ Returning("rcv", "recv")
         /\ res["rcv"].kind = "status"
         /\ res["rcv"].status.code = hist.winner.code
         /\ QueuedChunks = {}
         /\ hist.delivered = hist.accepted)

\* the marker found no room until the deadline; the consumer has drained the
\* queue and its recv, timing out on the empty queue, returns the
\* negative-code Status
GracefulEndWithoutMarker ==
    /\ hist.winner.code < 0
    /\ hist.marks = 0 /\ hist.modTrue = 1
    /\ Returning("rcv", "recv")
    /\ hist.call["rcv"].path = "timeout"
    /\ res["rcv"].status.code = hist.winner.code
    /\ hist.delivered = hist.accepted /\ hist.accepted # <<>>
    /\ queue = <<>>

\* C23: after a negative-code finish has won no Chunk sits behind the
\* end-of-stream marker in the queue and none is accepted once the marker
\* has been inserted; and when a recv returns the negative-code Status,
\* every chunk whose send returned the running Status has been delivered.
NoChunkBehindMarker ==
    /\ hist.winner.code < 0 =>
          \A i, j \in 1..Len(queue) :
              (i < j /\ queue[i].kind = "mark") => queue[j].kind # "chunk"
    /\ ~hist.behindMark
    /\ \A t \in Threads :
          (Returning(t, "recv") /\ res[t].kind = "status" /\ res[t].status.code < 0)
              => hist.reported \subseteq {hist.delivered[i].seq : i \in 1..Len(hist.delivered)}

\* C24: with the queue closed by nobody but the channel's own finish, the
\* queue is closed only while a positive code is published, so a send that
\* finds the queue closed reads a terminal Status at line 102 and no send
\* returns SEND_UNKNOWN_ERROR.
ClosedOnlyWhenHardClosed ==
    /\ closed => CurrentStatus.code > 0
    /\ \A t \in Threads : op[t] = "send" =>
          /\ (pc[t] = "s100" /\ closed) => CurrentStatus.code # RUNNING
          /\ pc[t] = "ret" => res[t].status.code # SEND_UNKNOWN_ERROR
          /\ hist.call[t].path = "closed" => res[t].status = CurrentStatus

\* a send whose insert failed on the closed queue returns the positive
\* Status that closed it
SendFoundHardClose ==
    /\ Returning("snd", "send")
    /\ hist.call["snd"].path = "closed"
    /\ closed
    /\ res["snd"].status.code = hist.winner.code
    /\ res["snd"].status.code > 0

\* the allocated bytes of the items of q
RECURSIVE SumAlloc(_)
SumAlloc(q) == IF q = <<>> THEN 0 ELSE Head(q).alloc + SumAlloc(Tail(q))

\* the allocated bytes of the chunk thread t holds at line pc = at
HeldAt(t, at) == IF pc[t] = at THEN chunk[t].alloc ELSE 0

\* C25 as stated: the bytes moved thread-to-global never fall below the
\* bytes moved global-to-thread.
CreditNeverNegative == t2g >= g2t

\* C25 amended: the in-flight credit equals the allocated bytes of the
\* chunks accepted into the queue and not yet credited to a receiver (line
\* 64), minus those of a chunk send has inserted and not yet charged (line
\* 95); so it is negative at most by the chunk of a send that stands
\* between lines 93 and 95, and never when no send stands there.
CreditLagsInsert ==
    /\ t2g - g2t = SumAlloc(hist.accepted) - SumAlloc(hist.delivered)
                      - HeldAt("snd", "s95")
    /\ t2g - g2t >= 0 - HeldAt("snd", "s95")
    /\ pc["snd"] # "s95" => t2g >= g2t

\* recv has credited a chunk whose send has not charged it yet
CreditNegativeSeen ==
    /\ pc["snd"] = "s95"
    /\ t2g - g2t = 0 - chunk["snd"].alloc
    /\ Returning("rcv", "recv")
    /\ res["rcv"].kind = "chunk"
    /\ res["rcv"].chunk.seq = chunk["snd"].seq

\* C26: a recv whose pop fails by deadline while a negative-code Status is
\* published does not disturb the graceful end: its finish(RECV_TIMEOUT)
\* loses the compare-and-swap, the published Status stays the winner's, the
\* queue is not closed, and the recv returns the negative-code Status with
\* is_modifer = false.
RecvTimeoutKeepsGracefulEnd ==
    \A t \in Threads :
        (op[t] = "recv" /\ hist.call[t].path = "timeout" /\ CurrentStatus.code < 0) =>
            /\ pc[t] \in {"f122", "r80", "ret"}
            /\ ~hist.call[t].won
            /\ ~closed /\ hist.closes = 0
            /\ CurrentStatus.code = hist.winner.code
            /\ CurrentStatus.message = hist.winner.message
            /\ pc[t] \in {"r80", "ret"} =>
                  /\ res[t].kind = "status"
                  /\ res[t].status = CurrentStatus
                  /\ ~res[t].status.is_modifer

\* the graceful end was published before the pop failed on the drained
\* queue; the recv returns it
GracefulEndKept ==
    /\ Returning("rcv", "recv")
    /\ hist.call["rcv"].path = "timeout"
    /\ ~hist.call["rcv"].timedOut
    /\ hist.winner.by = "snd"
    /\ res["rcv"].status.code = ALL_SENDERS_DONE
    /\ hist.delivered # <<>>

\* C27: whatever code finish was called with, 0 included, once some finish
\* call has returned the published code is not 0, and a send that starts
\* after that inserts no chunk.
FinishMakesTerminal ==
    /\ hist.finReturned => CurrentStatus.code # RUNNING
    /\ \A t \in Threads : (op[t] = "send" /\ hist.call[t].afterFinish) =>
          /\ hist.call[t].nIns = 0
          /\ pc[t] \in {"s88", "ret"}

====
